---- MODULE Spec2Model ----
(***************************************************************************)
(* Mergington High School activities API (src/src/app.py).                 *)
(*                                                                         *)
(* The store is the Prisma database: the table of activities, keyed by     *)
(* name, and the table of participant rows.  The participant table is a    *)
(* bag of rows, so that "at most one row per (activity, email)" is a       *)
(* property of the operations and not of the representation.               *)
(*                                                                         *)
(* app.py spells the columns both activityName/maxParticipants and         *)
(* activity_name/max_participants; the Prisma schema is not part of the    *)
(* sources, and the two spellings are read here as the same columns.       *)
(*                                                                         *)
(* A handler is a coroutine: it can be interleaved with other handlers     *)
(* only at its awaits, which are exactly its storage calls.  Each handler  *)
(* is therefore a small step machine with one step per storage call; the   *)
(* serial specification runs a handler's steps to completion in one        *)
(* action, the concurrent one interleaves the steps of several requests.   *)
(***************************************************************************)
EXTENDS Naturals, Sequences, FiniteSets, Bags, TLC

\* Largest capacity of an activity of a starting store.
MaxCap == 2
\* Number of requests in flight in the concurrent specification.
NumRequests == 2
\* Number of consecutive runs of the seeder in the seeding specification.
MaxSeedRuns == 2

Emails == {"michael@mergington.edu", "daniel@mergington.edu", "new@mergington.edu"}
\* Activities a starting store may hold, and the names a request may carry.
StoredNames == {"Chess Club", "Programming Class"}
RequestNames == StoredNames \cup {"Unknown Club"}
\* Activities of a starting store of the seeder: one of the catalog, one not.
SeedStartNames == {"Chess Club", "Robotics Club"}
Procs == 1..NumRequests

VARIABLES phase, activities, participants, last, before, requests, seedRuns
vars == <<phase, activities, participants, last, before, requests, seedRuns>>

-----------------------------------------------------------------------------
(* The seed catalog of init_db. *)

CatalogOrder ==
    << "Chess Club", "Programming Class", "Gym Class", "Soccer Team",
       "Basketball Club", "Art Club", "Drama Society", "Math Club",
       "Science Olympiad" >>

activities_data ==
    [name \in {CatalogOrder[i] : i \in 1..Len(CatalogOrder)} |->
      CASE name = "Chess Club" ->
             [description |-> "Learn strategies and compete in chess tournaments",
              schedule |-> "Fridays, 3:30 PM - 5:00 PM",
              maxParticipants |-> 12,
              participants |-> <<"michael@mergington.edu", "daniel@mergington.edu">>]
        [] name = "Programming Class" ->
             [description |-> "Learn programming fundamentals and build software projects",
              schedule |-> "Tuesdays and Thursdays, 3:30 PM - 4:30 PM",
              maxParticipants |-> 20,
              participants |-> <<"emma@mergington.edu", "sophia@mergington.edu">>]
        [] name = "Gym Class" ->
             [description |-> "Physical education and sports activities",
              schedule |-> "Mondays, Wednesdays, Fridays, 2:00 PM - 3:00 PM",
              maxParticipants |-> 30,
              participants |-> <<"john@mergington.edu", "olivia@mergington.edu">>]
        [] name = "Soccer Team" ->
             [description |-> "Join the school soccer team and compete in local leagues",
              schedule |-> "Tuesdays and Thursdays, 4:00 PM - 5:30 PM",
              maxParticipants |-> 18,
              participants |-> <<"lucas@mergington.edu", "mia@mergington.edu">>]
        [] name = "Basketball Club" ->
             [description |-> "Practice basketball skills and play friendly matches",
              schedule |-> "Wednesdays, 3:30 PM - 5:00 PM",
              maxParticipants |-> 15,
              participants |-> <<"liam@mergington.edu", "ava@mergington.edu">>]
        [] name = "Art Club" ->
             [description |-> "Explore painting, drawing, and other visual arts",
              schedule |-> "Mondays, 3:30 PM - 5:00 PM",
              maxParticipants |-> 16,
              participants |-> <<"noah@mergington.edu", "isabella@mergington.edu">>]
        [] name = "Drama Society" ->
             [description |-> "Participate in acting, stage production, and school plays",
              schedule |-> "Fridays, 4:00 PM - 5:30 PM",
              maxParticipants |-> 20,
              participants |-> <<"charlotte@mergington.edu", "jackson@mergington.edu">>]
        [] name = "Math Club" ->
             [description |-> "Solve challenging math problems and prepare for competitions",
              schedule |-> "Thursdays, 3:30 PM - 4:30 PM",
              maxParticipants |-> 14,
              participants |-> <<"amelia@mergington.edu", "benjamin@mergington.edu">>]
        [] OTHER ->
             [description |-> "Engage in science experiments and academic competitions",
              schedule |-> "Wednesdays, 4:00 PM - 5:00 PM",
              maxParticipants |-> 12,
              participants |-> <<"elijah@mergington.edu", "harper@mergington.edu">>]]

-----------------------------------------------------------------------------
(* The Prisma calls app.py makes, as functions of the tables. *)

Row(activity_name, email) == [activityName |-> activity_name, email |-> email]

\* The participant rows of one activity (the "participants" relation that
\* include={'participants': True} loads).
ParticipantsOf(parts, activity_name) ==
    [r \in {x \in DOMAIN parts : x.activityName = activity_name} |-> parts[r]]

NoActivity == [found |-> FALSE, max_participants |-> 0, participants |-> EmptyBag]

\* prisma.activity.find_unique(where={'name': ...}, include participants):
\* the activity with its participant rows, or None.
ActivityFindUnique(acts, parts, activity_name) ==
    IF activity_name \in DOMAIN acts
    THEN [found |-> TRUE,
          max_participants |-> acts[activity_name].maxParticipants,
          participants |-> ParticipantsOf(parts, activity_name)]
    ELSE NoActivity

\* A duplicate lookup that forgets the activity and matches the email alone.
ParticipantFindFirstByEmailOnly(parts, activity_name, email) ==
    \E r \in DOMAIN parts : r.email = email

\* prisma.participant.find_first(where={activity_name, email}): a row or None.
ParticipantFindFirst(parts, activity_name, email) ==
    BagIn(Row(activity_name, email), parts)

\* A lookup that never finds the row.
ParticipantFindUniqueNever(parts, activity_name, email) ==
    FALSE

\* prisma.participant.find_unique(where={'activityName_email': ...}).
ParticipantFindUnique(parts, activity_name, email) ==
    BagIn(Row(activity_name, email), parts)

\* A create that ignores the unique key (activityName, email).
ParticipantCreateNoUniqueKey(parts, activity_name, email) ==
    [ok |-> TRUE, participants |-> parts (+) SetToBag({Row(activity_name, email)})]

\* prisma.participant.create(data=...): inserts the row; the compound unique
\* key activityName_email makes the insert of a second row for the pair fail
\* with UniqueViolationError.
ParticipantCreate(parts, activity_name, email) ==
    IF BagIn(Row(activity_name, email), parts)
    THEN [ok |-> FALSE, participants |-> parts]
    ELSE [ok |-> TRUE, participants |-> parts (+) SetToBag({Row(activity_name, email)})]

\* A delete that leaves the row in place.
ParticipantDeleteNothing(parts, activity_name, email) ==
    parts

\* prisma.participant.delete(where={'activityName_email': ...}): deletes the
\* row of the pair; returns None, without raising, when there is none.
ParticipantDelete(parts, activity_name, email) ==
    parts (-) SetToBag({Row(activity_name, email)})

\* prisma.activity.upsert: create, or overwrite description, schedule and
\* maxParticipants of the activity of that name.
ActivityUpsert(acts, name, details) ==
    [n \in DOMAIN acts \cup {name} |->
        IF n = name
        THEN [description |-> details.description,
              schedule |-> details.schedule,
              maxParticipants |-> details.maxParticipants]
        ELSE acts[n]]

\* An upsert that inserts without looking for the row.
ParticipantUpsertAlwaysCreates(parts, activity_name, email) ==
    parts (+) SetToBag({Row(activity_name, email)})

\* prisma.participant.upsert with 'update': {}: create the row if the pair
\* has none, else leave it.
ParticipantUpsert(parts, activity_name, email) ==
    IF BagIn(Row(activity_name, email), parts)
    THEN parts
    ELSE parts (+) SetToBag({Row(activity_name, email)})

-----------------------------------------------------------------------------
(* init_db: the seeder. *)

RECURSIVE seed_participants(_, _, _, _)
\* The inner loop of init_db: upsert emails[i..] into the activity.
seed_participants(parts, name, emails, i) ==
    IF i > Len(emails)
    THEN parts
    ELSE seed_participants(ParticipantUpsert(parts, name, emails[i]), name, emails, i + 1)

RECURSIVE seed_activities(_, _, _)
\* The outer loop of init_db over activities_data.items(), from position i.
seed_activities(acts, parts, i) ==
    IF i > Len(CatalogOrder)
    THEN [activities |-> acts, participants |-> parts]
    ELSE LET name == CatalogOrder[i]
             details == activities_data[name]
         IN seed_activities(ActivityUpsert(acts, name, details),
                            seed_participants(parts, name, details.participants, 1),
                            i + 1)

init_db(acts, parts) == seed_activities(acts, parts, 1)

-----------------------------------------------------------------------------
(* Requests.  A frame is one invocation of a handler: its arguments, its     *)
(* position, its locals, the storage calls it has made and its response.     *)

NoResponse == [status_code |-> 0, body |-> <<>>]

NoFrame ==
    [op |-> "none", activity_name |-> "", email |-> "", pc |-> "done",
     activity |-> NoActivity, participant |-> FALSE,
     response |-> NoResponse, calls |-> <<>>]

NewFrame(op, activity_name, email) ==
    [op |-> op, activity_name |-> activity_name, email |-> email,
     pc |-> "find_unique",
     activity |-> NoActivity, participant |-> FALSE,
     response |-> NoResponse, calls |-> <<>>]

HTTPException(status_code, detail) ==
    [type |-> "HTTPException", status_code |-> status_code, detail |-> detail]

UniqueViolationError ==
    [type |-> "UniqueViolationError", status_code |-> 0,
     detail |-> "Unique constraint failed on the fields: (activityName, email)"]

\* str(e): an HTTPException renders as its status code, a colon and its
\* detail, any other exception as its message.  The rendering is kept as its parts.
StrOf(e) ==
    IF e.type = "HTTPException"
    THEN <<ToString(e.status_code), e.detail>>
    ELSE <<e.detail>>

\* A response of FastAPI to an HTTPException that leaves the handler.
ErrorResponse(e) == [status_code |-> e.status_code, body |-> <<e.detail>>]

\* The return value of a handler: status 200 and the message, the text
\* followed by the activity name.
MessageResponse(text, activity_name) ==
    [status_code |-> 200, body |-> <<text, activity_name>>]

Called(f, call) == [f EXCEPT !.calls = Append(@, call)]

Finish(f, response) == [f EXCEPT !.pc = "done", !.response = response]

\* The except clause of signup_for_activity: it catches every Exception
\* raised in the try block, the handler's own HTTPExceptions included, and
\* raises HTTPException(500, str(e)) in its place.
signup_except(f, e) == Finish(f, [status_code |-> 500, body |-> StrOf(e)])

\* A capacity test that lets one more in.
IsFullOffByOne(activity) ==
    BagCardinality(activity.participants) > activity.max_participants

\* len(activity.participants) >= activity.max_participants
IsFull(activity) ==
    BagCardinality(activity.participants) >= activity.max_participants

\* A first step that does not stop at a full activity.
signup_find_unique_ignores_full(f, acts, parts) ==
    LET activity == ActivityFindUnique(acts, parts, f.activity_name)
        g == [Called(f, "activity.find_unique") EXCEPT !.activity = activity]
    IN  [participants |-> parts,
         frame |-> IF ~activity.found
                   THEN signup_except(g, HTTPException(404, "Activity not found"))
                   ELSE [g EXCEPT !.pc = "find_first"]]

\* signup_for_activity up to its second await: the activity is loaded, then
\* the existence and the capacity checks are made on what was loaded.
signup_find_unique(f, acts, parts) ==
    LET activity == ActivityFindUnique(acts, parts, f.activity_name)
        g == [Called(f, "activity.find_unique") EXCEPT !.activity = activity]
    IN  [participants |-> parts,
         frame |-> IF ~activity.found
                   THEN signup_except(g, HTTPException(404, "Activity not found"))
                   ELSE IF IsFull(activity)
                   THEN signup_except(g, HTTPException(400, "Activity is full"))
                   ELSE [g EXCEPT !.pc = "find_first"]]

\* signup_for_activity from the duplicate lookup to its third await.
signup_find_first(f, acts, parts) ==
    LET existing_participant == ParticipantFindFirst(parts, f.activity_name, f.email)
        g == [Called(f, "participant.find_first") EXCEPT !.participant = existing_participant]
    IN  [participants |-> parts,
         frame |-> IF existing_participant
                   THEN signup_except(g, HTTPException(400, "Already signed up for this activity"))
                   ELSE [g EXCEPT !.pc = "create"]]

\* An insert that looks at the capacity again and drops the row when the
\* activity has filled up in the meantime.
signup_create_rechecks_capacity(f, acts, parts) ==
    LET g == Called(f, "participant.create")
        created == ParticipantCreate(parts, f.activity_name, f.email)
    IN  IF IsFull(ActivityFindUnique(acts, parts, f.activity_name))
        THEN [participants |-> parts,
              frame |-> Finish(g, MessageResponse("Successfully signed up for", f.activity_name))]
        ELSE [participants |-> created.participants,
              frame |-> IF created.ok
                        THEN Finish(g, MessageResponse("Successfully signed up for", f.activity_name))
                        ELSE signup_except(g, UniqueViolationError)]

\* signup_for_activity from the insert to its return.
signup_create(f, acts, parts) ==
    LET g == Called(f, "participant.create")
        created == ParticipantCreate(parts, f.activity_name, f.email)
    IN  [participants |-> created.participants,
         frame |-> IF created.ok
                   THEN Finish(g, MessageResponse("Successfully signed up for", f.activity_name))
                   ELSE signup_except(g, UniqueViolationError)]

\* remove_participant up to its second await; it has no try block, so its
\* HTTPException reaches the client as raised.
remove_find_unique(f, acts, parts) ==
    LET participant == ParticipantFindUnique(parts, f.activity_name, f.email)
        g == [Called(f, "participant.find_unique") EXCEPT !.participant = participant]
    IN  [participants |-> parts,
         frame |-> IF ~participant
                   THEN Finish(g, ErrorResponse(HTTPException(404, "Participant not found in activity")))
                   ELSE [g EXCEPT !.pc = "delete"]]

\* remove_participant from the delete to its return.
remove_delete(f, acts, parts) ==
    [participants |-> ParticipantDelete(parts, f.activity_name, f.email),
     frame |-> Finish(Called(f, "participant.delete"),
                      MessageResponse("Successfully removed from", f.activity_name))]

\* One step of a request: the code from one await to the next.
Step(f, acts, parts) ==
    CASE f.op = "signup" /\ f.pc = "find_unique" -> signup_find_unique(f, acts, parts)
      [] f.op = "signup" /\ f.pc = "find_first"  -> signup_find_first(f, acts, parts)
      [] f.op = "signup" /\ f.pc = "create"      -> signup_create(f, acts, parts)
      [] f.op = "remove" /\ f.pc = "find_unique" -> remove_find_unique(f, acts, parts)
      [] f.op = "remove" /\ f.pc = "delete"      -> remove_delete(f, acts, parts)
      [] OTHER -> [participants |-> parts, frame |-> f]

RECURSIVE Run(_, _, _)
\* A request run to completion with nothing interleaved.
Run(f, acts, parts) ==
    IF f.pc = "done"
    THEN [participants |-> parts, frame |-> f]
    ELSE LET s == Step(f, acts, parts) IN Run(s.frame, acts, s.participants)

signup_for_activity(acts, parts, activity_name, email) ==
    Run(NewFrame("signup", activity_name, email), acts, parts)

remove_participant(acts, parts, activity_name, email) ==
    Run(NewFrame("remove", activity_name, email), acts, parts)

-----------------------------------------------------------------------------
(* Starting stores.  The database outlives the process, so a run starts    *)
(* from whatever it holds; every table obeys the schema: one activity per  *)
(* name, one participant row per pair, every row in a stored activity.     *)

StartActivity(name, cap, stale) ==
    IF name \in DOMAIN activities_data /\ ~stale
    THEN [description |-> activities_data[name].description,
          schedule |-> activities_data[name].schedule,
          maxParticipants |-> cap]
    ELSE [description |-> "An earlier description",
          schedule |-> "An earlier schedule",
          maxParticipants |-> cap]

ActivityTables(names, stales) ==
    UNION { { [n \in S |-> StartActivity(n, c[n], st[n])] :
                c \in [S -> 1..MaxCap], st \in [S -> stales] } :
            S \in SUBSET names }

ParticipantTables(acts) ==
    { SetToBag(R) : R \in SUBSET { Row(n, e) : n \in DOMAIN acts, e \in Emails } }

Stores(names, stales) ==
    UNION { { [activities |-> acts, participants |-> parts] :
                parts \in ParticipantTables(acts) } :
            acts \in ActivityTables(names, stales) }

Count(parts, activity_name) == BagCardinality(ParticipantsOf(parts, activity_name))

WithinCapacity(acts, parts) ==
    \A n \in DOMAIN acts : Count(parts, n) <= acts[n].maxParticipants

EmptyStore == [activities |-> <<>>, participants |-> EmptyBag]

SeededStore == init_db(EmptyStore.activities, EmptyStore.participants)

Store == [activities |-> activities, participants |-> participants]

Idle == [p \in Procs |-> NoFrame]

-----------------------------------------------------------------------------
(* Serial execution: the process starts, serves one request at a time and   *)
(* stops.                                                                   *)

Init ==
    /\ phase = "boot"
    /\ \E s \in { t \in Stores(StoredNames, {FALSE}) :
                    WithinCapacity(t.activities, t.participants) } \cup {SeededStore} :
          /\ activities = s.activities
          /\ participants = s.participants
          /\ before = s
    /\ last = NoFrame
    /\ requests = Idle
    /\ seedRuns = 0

\* The startup event handler: prisma.connect() and nothing else.
startup ==
    /\ phase = "boot"
    /\ phase' = "serving"
    /\ UNCHANGED <<activities, participants, last, before, requests, seedRuns>>

\* The shutdown event handler: prisma.disconnect().
shutdown ==
    /\ phase = "serving"
    /\ phase' = "stopped"
    /\ UNCHANGED <<activities, participants, last, before, requests, seedRuns>>

Serve(r) ==
    /\ participants' = r.participants
    /\ last' = r.frame
    /\ before' = Store
    /\ UNCHANGED <<phase, activities, requests, seedRuns>>

SignupRequest ==
    /\ phase = "serving"
    /\ \E activity_name \in RequestNames, email \in Emails :
          Serve(signup_for_activity(activities, participants, activity_name, email))

RemoveRequest ==
    /\ phase = "serving"
    /\ \E activity_name \in RequestNames, email \in Emails :
          Serve(remove_participant(activities, participants, activity_name, email))

Next == startup \/ SignupRequest \/ RemoveRequest \/ shutdown

Spec == Init /\ [][Next]_vars

-----------------------------------------------------------------------------
(* Concurrent execution: NumRequests requests in flight on the event loop,  *)
(* interleaved at their awaits.                                             *)

ConcNames == {"Chess Club"}
ConcRequestNames == ConcNames \cup {"Unknown Club"}

InitConc ==
    /\ phase = "serving"
    /\ \E s \in { t \in Stores(ConcNames, {FALSE}) :
                    WithinCapacity(t.activities, t.participants) } :
          /\ activities = s.activities
          /\ participants = s.participants
          /\ before = s
    /\ last = NoFrame
    /\ requests = Idle
    /\ seedRuns = 0

Arrive(p) ==
    /\ requests[p].op = "none"
    /\ \E op \in {"signup", "remove"}, activity_name \in ConcRequestNames, email \in Emails :
          requests' = [requests EXCEPT ![p] = NewFrame(op, activity_name, email)]
    /\ UNCHANGED <<phase, activities, participants, last, before, seedRuns>>

At(p, op, pc) == requests[p].op = op /\ requests[p].pc = pc

Advance(p) ==
    LET s == Step(requests[p], activities, participants)
    IN  /\ participants' = s.participants
        /\ requests' = [requests EXCEPT ![p] = s.frame]
        /\ UNCHANGED <<phase, activities, last, before, seedRuns>>

SignupFindUnique(p) == At(p, "signup", "find_unique") /\ Advance(p)
SignupFindFirst(p) == At(p, "signup", "find_first") /\ Advance(p)
SignupCreate(p) == At(p, "signup", "create") /\ Advance(p)
RemoveFindUnique(p) == At(p, "remove", "find_unique") /\ Advance(p)
RemoveDelete(p) == At(p, "remove", "delete") /\ Advance(p)

NextConc ==
    \E p \in Procs :
        \/ Arrive(p)
        \/ SignupFindUnique(p)
        \/ SignupFindFirst(p)
        \/ SignupCreate(p)
        \/ RemoveFindUnique(p)
        \/ RemoveDelete(p)

SpecConc == InitConc /\ [][NextConc]_vars

-----------------------------------------------------------------------------
(* The seeder, run on any store.                                           *)

InitSeed ==
    /\ phase = "serving"
    /\ \E s \in Stores(SeedStartNames, {FALSE, TRUE}) :
          /\ activities = s.activities
          /\ participants = s.participants
          /\ before = s
    /\ last = NoFrame
    /\ requests = Idle
    /\ seedRuns = 0

RunInitDb ==
    /\ seedRuns < MaxSeedRuns
    /\ LET s == init_db(activities, participants)
       IN  /\ activities' = s.activities
           /\ participants' = s.participants
    /\ before' = Store
    /\ last' = [NoFrame EXCEPT !.op = "init_db"]
    /\ seedRuns' = seedRuns + 1
    /\ UNCHANGED <<phase, requests>>

NextSeed == RunInitDb

SpecSeed == InitSeed /\ [][NextSeed]_vars

-----------------------------------------------------------------------------
(* Properties.  In the serial specification, last is the request served     *)
(* last and before the store it was served on; in the concurrent one,       *)
(* before is the store the requests started from; in the seeding one,       *)
(* before is the store the last run of init_db started from.                *)

Rows == DOMAIN participants \cup DOMAIN before.participants

Copies(parts, r) == CopiesIn(r, parts)

LastRow == Row(last.activity_name, last.email)

KnownBefore == last.activity_name \in DOMAIN before.activities

MemberBefore == BagIn(LastRow, before.participants)

CountBefore == Count(before.participants, last.activity_name)

MaxBefore == before.activities[last.activity_name].maxParticipants

\* C1: a sign-up request answers 404 when the activity is unknown, 400 when
\* the activity exists and is full, and 400 when it exists, is not full and
\* the pair is already a participant.
C1_ValidationStatus ==
    last.op = "signup" =>
        /\ ~KnownBefore => last.response.status_code = 404
        /\ (KnownBefore /\ CountBefore = MaxBefore) => last.response.status_code = 400
        /\ (KnownBefore /\ CountBefore < MaxBefore /\ MemberBefore)
              => last.response.status_code = 400

\* C2: a remove request served alone answers 200 and deletes exactly the
\* membership of its pair when that membership exists, and answers 404 and
\* leaves activities and participants as they were when it does not.
C2_RemoveContract ==
    last.op = "remove" =>
        IF MemberBefore
        THEN /\ last.response.status_code = 200
             /\ \A r \in Rows :
                   Copies(participants, r) =
                      IF r = LastRow THEN 0 ELSE Copies(before.participants, r)
             /\ activities = before.activities
        ELSE /\ last.response.status_code = 404
             /\ Store = before

C2_Witness ==
    /\ last.op = "remove"
    /\ MemberBefore
    /\ last.response.status_code = 200
    /\ BagCardinality(participants) > 0

\* C3: a sign-up request served alone adds exactly the membership of its
\* pair and answers 200 when the activity exists, has fewer participants
\* than max_participants and the pair is no participant; in every other
\* case activities and participants are as they were.
C3_SignupEffect ==
    last.op = "signup" =>
        IF KnownBefore /\ CountBefore < MaxBefore /\ ~MemberBefore
        THEN /\ last.response.status_code = 200
             /\ \A r \in Rows :
                   Copies(participants, r) =
                      IF r = LastRow THEN 1 ELSE Copies(before.participants, r)
             /\ Count(participants, last.activity_name) = CountBefore + 1
             /\ activities = before.activities
        ELSE Store = before

C3_Witness ==
    /\ last.op = "signup"
    /\ KnownBefore /\ CountBefore < MaxBefore /\ ~MemberBefore
    /\ BagCardinality(before.participants) > CountBefore
    /\ BagIn(LastRow, participants)

\* C4: with requests served one at a time, from a store within capacity, no
\* activity ever has more participants than its max_participants.
C4_CapacityInvariant ==
    \A n \in DOMAIN activities : Count(participants, n) <= activities[n].maxParticipants

C4_Witness ==
    /\ last.op = "signup"
    /\ last.response.status_code = 200
    /\ Count(participants, last.activity_name) = activities[last.activity_name].maxParticipants

\* C5: in every state of the interleaved execution of sign-up and remove
\* requests, the store holds at most one participant row per pair.
C5_UniquePair ==
    \A r \in DOMAIN participants : Copies(participants, r) <= 1

\* Two sign-ups of one pair have both passed the duplicate lookup; one
\* insert landed and the other hit the unique key.
C5_Witness ==
    \E p, q \in Procs :
        /\ p # q
        /\ requests[p].op = "signup" /\ requests[q].op = "signup"
        /\ requests[p].activity_name = requests[q].activity_name
        /\ requests[p].email = requests[q].email
        /\ requests[p].response.status_code = 200
        /\ requests[q].calls = <<"activity.find_unique", "participant.find_first", "participant.create">>
        /\ requests[q].response.status_code = 500

\* C6: sign-up checks existence, then capacity, then duplicate, and stops at
\* the first failure: an unknown activity costs the one activity lookup and
\* ends in the not-found error; a full activity costs the one activity
\* lookup and ends in the activity-full error, whether or not the pair is a
\* participant; the storage calls are always a prefix of lookup of the
\* activity, lookup of the pair, insert.
C6_CheckOrder ==
    last.op = "signup" =>
        /\ ~KnownBefore =>
              /\ last.calls = <<"activity.find_unique">>
              /\ last.response.body = <<"404", "Activity not found">>
        /\ (KnownBefore /\ CountBefore >= MaxBefore) =>
              /\ last.calls = <<"activity.find_unique">>
              /\ last.response.body = <<"400", "Activity is full">>
        /\ (KnownBefore /\ CountBefore < MaxBefore /\ MemberBefore) =>
              /\ last.calls = <<"activity.find_unique", "participant.find_first">>
              /\ last.response.body = <<"400", "Already signed up for this activity">>
        /\ \E n \in 1..3 :
              last.calls = SubSeq(<<"activity.find_unique", "participant.find_first",
                                    "participant.create">>, 1, n)

C6_Witness ==
    /\ last.op = "signup"
    /\ KnownBefore /\ CountBefore = MaxBefore /\ MemberBefore
    /\ last.pc = "done"

Seeded(acts, parts) ==
    \A name \in DOMAIN activities_data :
        /\ name \in DOMAIN acts
        /\ acts[name].description = activities_data[name].description
        /\ acts[name].schedule = activities_data[name].schedule
        /\ acts[name].maxParticipants = activities_data[name].maxParticipants
        /\ \A i \in 1..Len(activities_data[name].participants) :
              BagIn(Row(name, activities_data[name].participants[i]), parts)

\* C7: once the startup handler has completed, every activity of the
\* catalog is in the store with the catalog's description, schedule and
\* max_participants, and every participant the catalog lists is a member.
C7_SeededAfterStartup ==
    phase = "serving" => Seeded(activities, participants)

\* C8: seeding is idempotent: a run of init_db that follows a run of init_db
\* leaves activities and participants as the first run left them, whatever
\* the store the first run started from.
C8_SeedIdempotent ==
    seedRuns >= 2 => Store = before

C8_Witness ==
    /\ seedRuns = 2
    /\ Seeded(activities, participants)
    /\ "Robotics Club" \in DOMAIN activities
    /\ Count(participants, "Chess Club") > Len(activities_data["Chess Club"].participants)

NoDeleteOn(activity_name) ==
    \A r \in Procs :
        ~ /\ requests[r].op = "remove"
          /\ requests[r].activity_name = activity_name
          /\ requests[r].pc = "done"
          /\ requests[r].response.status_code = 200

LastSlotRace(p, q) ==
    /\ p # q
    /\ requests[p].op = "signup" /\ requests[q].op = "signup"
    /\ requests[p].activity_name = requests[q].activity_name
    /\ requests[p].email # requests[q].email
    /\ requests[p].activity.found /\ requests[q].activity.found
    /\ BagCardinality(requests[p].activity.participants) + 1 = requests[p].activity.max_participants
    /\ BagCardinality(requests[q].activity.participants) + 1 = requests[q].activity.max_participants
    /\ requests[p].response.status_code = 200
    /\ requests[q].response.status_code = 200
    /\ NoDeleteOn(requests[p].activity_name)

\* C9: when two sign-ups with different emails both load an activity with
\* one open slot, both pass the checks and both inserts succeed, and, no
\* remove having deleted from the activity, the activity then has more
\* participants than its max_participants.
C9_LastSlotOverbooked ==
    \A p, q \in Procs :
        LastSlotRace(p, q) =>
            Count(participants, requests[p].activity_name)
               > activities[requests[p].activity_name].maxParticipants

C9_Witness ==
    \E p, q \in Procs :
        /\ LastSlotRace(p, q)
        /\ Count(participants, requests[p].activity_name)
              > activities[requests[p].activity_name].maxParticipants

\* Two remove requests for one membership that the starting store holds,
\* both completed, no other request being for that pair.
RemoveRace(p, q) ==
    /\ p # q
    /\ requests[p].op = "remove" /\ requests[q].op = "remove"
    /\ requests[p].activity_name = requests[q].activity_name
    /\ requests[p].email = requests[q].email
    /\ BagIn(Row(requests[p].activity_name, requests[p].email), before.participants)
    /\ requests[p].pc = "done" /\ requests[q].pc = "done"
    /\ \A r \in Procs \ {p, q} :
          ~ /\ requests[r].activity_name = requests[p].activity_name
            /\ requests[r].email = requests[p].email

\* C10 as stated: of two concurrent remove requests for the same existing
\* membership, at most one answers 200 and the other answers 404.
C10_AtMostOneRemoveSucceeds ==
    \A p, q \in Procs :
        RemoveRace(p, q) =>
            \/ requests[p].response.status_code = 200 /\ requests[q].response.status_code = 404
            \/ requests[p].response.status_code = 404 /\ requests[q].response.status_code = 200

\* C10 as amended: of two concurrent remove requests for the same existing
\* membership, at least one answers 200 and the membership is gone once both
\* have completed; a request answers 200 exactly when its existence check
\* found the row, so both answer 200 when both checks ran before either
\* delete, and the later one answers 404 otherwise.
C10_RemoveRace ==
    \A p, q \in Procs :
        RemoveRace(p, q) =>
            /\ requests[p].response.status_code = 200 \/ requests[q].response.status_code = 200
            /\ \A r \in {p, q} :
                  requests[r].response.status_code = (IF requests[r].participant THEN 200 ELSE 404)
            /\ ~BagIn(Row(requests[p].activity_name, requests[p].email), participants)

C10_Witness ==
    \E p, q \in Procs :
        /\ RemoveRace(p, q)
        /\ requests[p].response.status_code = 200
        /\ requests[q].response.status_code = 200

====
